---- MODULE Spec2Model ----
(***************************************************************************)
(* A model of src/src/ML/components/data_processing.py: the DataProcessing *)
(* object, its seven stage methods and the table (self.df) they share.     *)
(*                                                                         *)
(* Numeric cells are IEEE-754 binary64 values, as numpy/pandas hold them:  *)
(* the arithmetic of convert_temperature and of MinMaxScaler is modelled   *)
(* bit for bit (round to nearest, ties to even) on 53-bit significands     *)
(* kept as sequences of 15-bit limbs, because the model checker's integers *)
(* are 32 bits wide.                                                       *)
(***************************************************************************)
EXTENDS Integers, Sequences, FiniteSets

(***************************************************************************)
(* Natural numbers of any size: little-endian sequences of limbs in        *)
(* 0..LimbBase-1 with no leading zero limb; <<>> is zero.                  *)
(***************************************************************************)
LimbBits == 15

LimbBase == 32768

\* the sequence <<F(1), ..., F(n)>>
Tabulate(n, F(_)) ==
    LET RECURSIVE Upto(_)
        Upto(k) == IF k = 0 THEN <<>> ELSE Append(Upto(k - 1), F(k))
    IN  Upto(n)

\* Body(value), with value computed once, however often Body uses it
With(value, Body(_)) == CHOOSE r \in {Body(v) : v \in {value}} : TRUE

RECURSIVE Pow2(_)
Pow2(k) == IF k = 0 THEN 1 ELSE 2 * Pow2(k - 1)

Limb(a, i) == IF i >= 1 /\ i <= Len(a) THEN a[i] ELSE 0

RECURSIVE BNorm(_)
BNorm(a) ==
    IF a = <<>> THEN <<>>
    ELSE IF a[Len(a)] = 0 THEN BNorm(SubSeq(a, 1, Len(a) - 1))
    ELSE a

RECURSIVE BFromInt(_)
BFromInt(n) ==
    IF n = 0 THEN <<>> ELSE <<n % LimbBase>> \o BFromInt(n \div LimbBase)

RECURSIVE SmallBitLen(_)
SmallBitLen(n) == IF n = 0 THEN 0 ELSE 1 + SmallBitLen(n \div 2)

BBitLen(a) ==
    IF a = <<>> THEN 0
    ELSE LimbBits * (Len(a) - 1) + SmallBitLen(a[Len(a)])

BBit(a, i) == (Limb(a, ((i - 1) \div LimbBits) + 1) \div Pow2((i - 1) % LimbBits)) % 2

RECURSIVE BCmpFrom(_, _, _)
BCmpFrom(a, b, i) ==
    IF i = 0 THEN 0
    ELSE IF a[i] < b[i] THEN -1
    ELSE IF a[i] > b[i] THEN 1
    ELSE BCmpFrom(a, b, i - 1)

\* -1, 0 or 1 as a < b, a = b, a > b
BCmp(a, b) ==
    IF Len(a) < Len(b) THEN -1
    ELSE IF Len(a) > Len(b) THEN 1
    ELSE BCmpFrom(a, b, Len(a))

RECURSIVE BAddFrom(_, _, _, _)
BAddFrom(a, b, i, c) ==
    IF i > Len(a) /\ i > Len(b)
    THEN (IF c = 0 THEN <<>> ELSE <<c>>)
    ELSE LET s == Limb(a, i) + Limb(b, i) + c
         IN  <<s % LimbBase>> \o BAddFrom(a, b, i + 1, s \div LimbBase)

BAdd(a, b) == BAddFrom(a, b, 1, 0)

RECURSIVE BSubFrom(_, _, _, _)
BSubFrom(a, b, i, c) ==
    IF i > Len(a) THEN <<>>
    ELSE LET s == Limb(a, i) - Limb(b, i) - c
         IN  IF s < 0
             THEN <<s + LimbBase>> \o BSubFrom(a, b, i + 1, 1)
             ELSE <<s>> \o BSubFrom(a, b, i + 1, 0)

\* a - b, for a >= b
BSub(a, b) == BNorm(BSubFrom(a, b, 1, 0))

RECURSIVE BMulSmallFrom(_, _, _, _)
BMulSmallFrom(a, k, i, c) ==
    IF i > Len(a)
    THEN (IF c = 0 THEN <<>> ELSE <<c>>)
    ELSE LET s == a[i] * k + c
         IN  <<s % LimbBase>> \o BMulSmallFrom(a, k, i + 1, s \div LimbBase)

\* a * k, for 0 <= k < LimbBase
BMulSmall(a, k) == IF k = 0 THEN <<>> ELSE BMulSmallFrom(a, k, 1, 0)

Zeros(n) == Tabulate(n, LAMBDA i : 0)

RECURSIVE BMulFrom(_, _, _)
BMulFrom(a, b, j) ==
    IF j > Len(b) THEN <<>>
    ELSE BAdd(BNorm(Zeros(j - 1) \o BMulSmall(a, b[j])), BMulFrom(a, b, j + 1))

BMul(a, b) == IF a = <<>> \/ b = <<>> THEN <<>> ELSE BMulFrom(a, b, 1)

\* a * 2^k
BShl(a, k) ==
    IF a = <<>> THEN <<>>
    ELSE Zeros(k \div LimbBits) \o BMulSmall(a, Pow2(k % LimbBits))

\* a \div 2^k
BShr(a, k) ==
    LET q == k \div LimbBits
        r == k % LimbBits
    IN  IF q >= Len(a) THEN <<>>
        ELSE BNorm(Tabulate(Len(a) - q, LAMBDA i :
                 (a[i + q] \div Pow2(r))
                   + (Limb(a, i + q + 1) % Pow2(r)) * Pow2(LimbBits - r)))

RECURSIVE BDivDigit(_, _, _)
\* the largest q <= guess with d * q <= r
BDivDigit(r, d, guess) ==
    IF BCmp(BMulSmall(d, guess), r) > 0 THEN BDivDigit(r, d, guess - 1) ELSE guess

RECURSIVE BDivLimbs(_, _, _)
\* schoolbook long division of a by d, one limb of a at a time from the top;
\* st is <<quotient, remainder, j>>: the limbs of a above limb j are done.
\* The top limb of d has its top bit set, so the guessed digit is at most 2
\* too large.
BDivLimbs(a, d, st) ==
    IF st[3] = 0 THEN <<st[1], st[2]>>
    ELSE LET j     == st[3]
             r     == BNorm(<<a[j]>> \o st[2])
             n     == Len(d)
             est   == (Limb(r, n + 1) * LimbBase + Limb(r, n)) \div d[n]
             guess == IF est > LimbBase - 1 THEN LimbBase - 1 ELSE est
             digit == BDivDigit(r, d, guess)
         IN  BDivLimbs(a, d, <<BNorm(<<digit>> \o st[1]), BSub(r, BMulSmall(d, digit)), j - 1>>)

\* <<a \div d, a % d>> for d # 0
BDivMod(a, d) ==
    LET s  == LimbBits - SmallBitLen(d[Len(d)])
        as == BShl(a, s)
        ds == BShl(d, s)
        qr == BDivLimbs(as, ds, <<<<>>, <<>>, Len(as)>>)
    IN  <<qr[1], BShr(qr[2], s)>>

(***************************************************************************)
(* binary64 values: (-1)^neg * m * 2^e with m a 53-bit natural (its top    *)
(* bit set), or m = <<>> for 0.0.  The inputs of the model stay far from   *)
(* the subnormal and overflow ranges, and no operation of the pipeline     *)
(* yields -0.0, NaN or an infinity on them.                                *)
(***************************************************************************)
Precision == 53

FZero == [neg |-> FALSE, m |-> <<>>, e |-> 0]

\* round (-1)^neg * (n + s) * 2^e, where 0 <= s < 1 and sticky says s > 0,
\* to the nearest binary64, ties to even
FRound(neg, n, e, sticky) ==
    LET len == BBitLen(n)
    IN  IF n = <<>> THEN FZero
        ELSE IF len <= Precision
        THEN [neg |-> neg, m |-> BShl(n, Precision - len), e |-> e - (Precision - len)]
        ELSE LET sh   == len - Precision
                 q    == BShr(n, sh)
                 rem  == BSub(n, BShl(q, sh))
                 half == BShl(<<1>>, sh - 1)
                 c    == BCmp(rem, half)
                 up   == c > 0 \/ (c = 0 /\ (sticky \/ q[1] % 2 = 1))
                 q1   == IF up THEN BAdd(q, <<1>>) ELSE q
             IN  IF BBitLen(q1) > Precision
                 THEN [neg |-> neg, m |-> BShr(q1, 1), e |-> e + sh + 1]
                 ELSE [neg |-> neg, m |-> q1, e |-> e + sh]

FromInt(n) == FRound(n < 0, BFromInt(IF n < 0 THEN -n ELSE n), 0, FALSE)

FNeg(x) == IF x.m = <<>> THEN x ELSE [x EXCEPT !.neg = ~x.neg]

FAdd(x, y) ==
    IF x.m = <<>> THEN y
    ELSE IF y.m = <<>> THEN x
    ELSE LET e  == IF x.e < y.e THEN x.e ELSE y.e
             xm == BShl(x.m, x.e - e)
             ym == BShl(y.m, y.e - e)
             c  == BCmp(xm, ym)
         IN  IF x.neg = y.neg THEN FRound(x.neg, BAdd(xm, ym), e, FALSE)
             ELSE IF c = 0 THEN FZero
             ELSE IF c > 0 THEN FRound(x.neg, BSub(xm, ym), e, FALSE)
             ELSE FRound(y.neg, BSub(ym, xm), e, FALSE)

FSub(x, y) == FAdd(x, FNeg(y))

FMul(x, y) ==
    IF x.m = <<>> \/ y.m = <<>> THEN FZero
    ELSE FRound(x.neg # y.neg, BMul(x.m, y.m), x.e + y.e, FALSE)

GuardBits == 60

\* x / y for y # 0
FDiv(x, y) ==
    IF x.m = <<>> THEN FZero
    ELSE LET qr == BDivMod(BShl(x.m, GuardBits), y.m)
         IN  FRound(x.neg # y.neg, qr[1], x.e - y.e - GuardBits, qr[2] # <<>>)

\* x < y
FLess(x, y) ==
    IF x.m = <<>> THEN (y.m # <<>> /\ ~y.neg)
    ELSE IF y.m = <<>> THEN x.neg
    ELSE IF x.neg # y.neg THEN x.neg
    ELSE LET lt == x.e < y.e \/ (x.e = y.e /\ BCmp(x.m, y.m) < 0)
             gt == x.e > y.e \/ (x.e = y.e /\ BCmp(x.m, y.m) > 0)
         IN  IF x.neg THEN gt ELSE lt

(***************************************************************************)
(* Tables (pandas DataFrames): cols is the sequence of column names and    *)
(* rows the sequence of rows, each a tuple of cells aligned with cols.  A  *)
(* cell is a string [s |-> ..], an int64 [i |-> ..] or a binary64 value.   *)
(***************************************************************************)
StrCell(x) == [s |-> x]

IntCell(n) == [i |-> n]

IsInt(c) == DOMAIN c = {"i"}

IsStr(c) == DOMAIN c = {"s"}

IsFloat(c) == DOMAIN c = {"neg", "m", "e"}

\* the float64 value of a numeric cell
ToFloat(c) == IF IsInt(c) THEN FromInt(c.i) ELSE c

\* self.df = None
NoneDF == [none |-> TRUE]

IsTable(t) == DOMAIN t = {"cols", "rows"}

NRows(t) == Len(t.rows)

HasCol(t, c) == \E k \in 1..Len(t.cols) : t.cols[k] = c

ColIndex(t, c) == CHOOSE k \in 1..Len(t.cols) : t.cols[k] = c

\* df[c]
Column(t, c) == LET k == ColIndex(t, c) IN Tabulate(NRows(t), LAMBDA r : t.rows[r][k])

\* mutant of MissingLabels: drop(..., errors='ignore')
MissingLabelsIgnored(t, S) == {}

\* the names of S that df.drop(S, axis=1) does not find: it raises KeyError
\* unless there is none
MissingLabels(t, S) == {c \in S : ~HasCol(t, c)}

\* mutant of DropCols: a drop without inplace=True, its result discarded
DropColsNotInPlace(t, S) == t

\* df.drop(S, axis=1), every name of S being a column
DropCols(t, S) ==
    LET Keep(k) == t.cols[k] \notin S
        idx == SelectSeq(Tabulate(Len(t.cols), LAMBDA k : k), Keep)
    IN  [cols |-> Tabulate(Len(idx), LAMBDA k : t.cols[idx[k]]),
         rows |-> Tabulate(NRows(t), LAMBDA r : Tabulate(Len(idx), LAMBDA k : t.rows[r][idx[k]]))]

\* mutant of RenameCol: a rename without inplace=True, its result discarded
RenameColNotInPlace(t, old, new) == t

\* df.rename(columns={old: new}): a missing old name is ignored
RenameCol(t, old, new) ==
    [t EXCEPT !.cols = Tabulate(Len(t.cols), LAMBDA k : IF t.cols[k] = old THEN new ELSE t.cols[k])]

\* df[c] = vals: in place when c is a column, else a new last column
SetCol(t, c, vals) ==
    IF HasCol(t, c)
    THEN LET k == ColIndex(t, c)
         IN  [t EXCEPT !.rows = Tabulate(NRows(t), LAMBDA r : [t.rows[r] EXCEPT ![k] = vals[r]])]
    ELSE [cols |-> Append(t.cols, c),
          rows |-> Tabulate(NRows(t), LAMBDA r : Append(t.rows[r], vals[r]))]

\* the rows of t at the given (1-based) positions, in that order
TakeRows(t, idx) == [t EXCEPT !.rows = Tabulate(Len(idx), LAMBDA k : t.rows[idx[k]])]

(***************************************************************************)
(* The input file at config.data_path.  Its rows are drawn from a few      *)
(* sample observations; numeric fields are written as integers, so that    *)
(* read_csv yields int64 columns and no decimal parsing is involved.       *)
(***************************************************************************)
RequiredColumns ==
    <<"UDI", "Product ID", "Type", "Air temperature [K]", "Process temperature [K]",
      "Rotational speed [rpm]", "Torque [Nm]", "Tool wear [min]", "Target", "Failure Type">>

SampleRows ==
    <<  <<"L47181", "L", 298, 308, 1500, 40, 1, 0, "No Failure">>,
        <<"M14860", "M", 300, 310, 1400, 50, 6, 1, "Heat Dissipation Failure">>,
        <<"H29424", "H", 302, 311, 1300, 60, 3, 1, "Heat Dissipation Failure">>,
        <<"L47182", "L", 299, 309, 2800, 10, 4, 1, "Power Failure">> >>

\* row number udi of the file, holding sample observation k
CsvRow(udi, k) ==
    LET o == SampleRows[k]
    IN  <<IntCell(udi), StrCell(o[1]), StrCell(o[2]), IntCell(o[3]), IntCell(o[4]),
          IntCell(o[5]), IntCell(o[6]), IntCell(o[7]), IntCell(o[8]), StrCell(o[9])>>

\* the file holding the observations ks, written without the columns of missing
CsvTable(ks, missing) ==
    DropCols([cols |-> RequiredColumns,
              rows |-> Tabulate(Len(ks), LAMBDA r : CsvRow(r, ks[r]))], missing)

(***************************************************************************)
(* State.                                                                  *)
(***************************************************************************)
VARIABLES
    csv,     \* the table in the file at config.data_path
    df,      \* self.df
    files,   \* the four files under config.root_dir
    log,     \* the messages given to logger.info, oldest first
    call,    \* the method called last
    err      \* how that call ended: "ok" or the exception raised

vars == <<csv, df, files, log, call, err>>

FileNames == {"X_train.csv", "X_test.csv", "y_train.csv", "y_test.csv"}

Absent == [absent |-> TRUE]

Msg(text) == [msg |-> text, shapes |-> <<>>]

\* the call ends normally, having logged entries
Returns(method, entries) ==
    /\ call' = method
    /\ err' = "ok"
    /\ log' = log \o entries

\* the call raises exc
Raises(method, exc) ==
    /\ call' = method
    /\ err' = exc
    /\ log' = log

K273_15 == FDiv(FromInt(27315), FromInt(100))

load_data ==
    /\ df' = csv
    /\ Returns("load_data", <<Msg("Data loaded successfully")>>)
    /\ UNCHANGED <<csv, files>>

rename_and_drop_columns ==
    /\ UNCHANGED <<csv, files>>
    /\ IF ~IsTable(df)
       THEN df' = df /\ Raises("rename_and_drop_columns", "AttributeError")
       ELSE \E renamed \in {RenameCol(df, "Target", "Machine failure")} :
                IF MissingLabels(renamed, {"UDI", "Product ID"}) = {}
                THEN /\ df' = DropCols(renamed, {"UDI", "Product ID"})
                     /\ Returns("rename_and_drop_columns", <<Msg("Renamed and dropped columns")>>)
                ELSE /\ df' = renamed
                     /\ Raises("rename_and_drop_columns", "KeyError")

\* column c of t in Celsius
Celsius(t, c) ==
    With(Column(t, c),
         LAMBDA kelvin : Tabulate(Len(kelvin), LAMBDA r : FSub(ToFloat(kelvin[r]), K273_15)))

convert_temperature ==
    /\ UNCHANGED <<csv, files>>
    /\ IF ~IsTable(df)
       THEN df' = df /\ Raises("convert_temperature", "TypeError")
       ELSE IF ~HasCol(df, "Air temperature [K]")
       THEN df' = df /\ Raises("convert_temperature", "KeyError")
       ELSE \E air \in {SetCol(df, "Air temperature [c]", Celsius(df, "Air temperature [K]"))} :
                IF ~HasCol(air, "Process temperature [K]")
                THEN df' = air /\ Raises("convert_temperature", "KeyError")
                ELSE \E both \in {SetCol(air, "Process temperature [c]",
                                         Celsius(air, "Process temperature [K]"))} :
                         /\ df' = DropCols(both, {"Air temperature [K]", "Process temperature [K]"})
                         /\ Returns("convert_temperature",
                              <<Msg("Converted temperatures to Celsius and dropped original columns")>>)

(***************************************************************************)
(* encode_features.  Python orders strings by code point; CodePoints gives *)
(* the code points of the Failure Type strings of the sample observations. *)
(***************************************************************************)
CodePoints(x) ==
    CASE x = "No Failure" ->
           <<78, 111, 32, 70, 97, 105, 108, 117, 114, 101>>
      [] x = "Heat Dissipation Failure" ->
           <<72, 101, 97, 116, 32, 68, 105, 115, 115, 105, 112, 97, 116, 105, 111, 110,
             32, 70, 97, 105, 108, 117, 114, 101>>
      [] x = "Power Failure" ->
           <<80, 111, 119, 101, 114, 32, 70, 97, 105, 108, 117, 114, 101>>

RECURSIVE SeqLess(_, _)
\* lexicographic order of sequences of numbers
SeqLess(a, b) ==
    IF b = <<>> THEN FALSE
    ELSE IF a = <<>> THEN TRUE
    ELSE IF Head(a) # Head(b) THEN Head(a) < Head(b)
    ELSE SeqLess(Tail(a), Tail(b))

\* x < y for Python strings
StrLess(x, y) == SeqLess(CodePoints(x), CodePoints(y))

\* OrdinalEncoder(categories=[['L', 'M', 'H']])
TypeCategories == <<"L", "M", "H">>

\* the rank of a Type string among the categories, as float64
OrdinalCode(x) == FromInt((CHOOSE k \in 1..Len(TypeCategories) : TypeCategories[k] = x) - 1)

\* can OrdinalEncoder fit and transform these cells
OrdinalFits(cells) ==
    \A r \in 1..Len(cells) :
        /\ IsStr(cells[r])
        /\ \E k \in 1..Len(TypeCategories) : TypeCategories[k] = cells[r].s

\* LabelEncoder: the code of label x among the labels of cells, which is its
\* rank in the sorted distinct labels (numpy.unique)
LabelCode(cells, x) ==
    Cardinality({y \in {cells[r].s : r \in 1..Len(cells)} : StrLess(y, x)})

\* OrdinalEncoder.fit_transform on the cells of the Type column
OrdinalCodes(cells) ==
    With(cells, LAMBDA types : Tabulate(Len(types), LAMBDA r : OrdinalCode(types[r].s)))

encode_features ==
    /\ UNCHANGED <<csv, files>>
    /\ IF ~IsTable(df)
       THEN df' = df /\ Raises("encode_features", "TypeError")
       ELSE IF ~HasCol(df, "Type")
       THEN df' = df /\ Raises("encode_features", "KeyError")
       ELSE IF ~OrdinalFits(Column(df, "Type"))
       THEN df' = df /\ Raises("encode_features", "ValueError")
       ELSE \E typed \in {SetCol(df, "Type", OrdinalCodes(Column(df, "Type")))} :
                IF ~HasCol(typed, "Failure Type")
                THEN df' = typed /\ Raises("encode_features", "KeyError")
                ELSE \E labels \in {Column(typed, "Failure Type")} :
                         /\ df' = SetCol(typed, "type_of_failure",
                                    Tabulate(NRows(df), LAMBDA r : IntCell(LabelCode(labels, labels[r].s))))
                         /\ Returns("encode_features", <<Msg("Encoded categorical features")>>)

(***************************************************************************)
(* scale_features: MinMaxScaler().fit_transform on float64.                *)
(***************************************************************************)
col_to_scale ==
    <<"Rotational speed [rpm]", "Torque [Nm]", "Tool wear [min]",
      "Air temperature [c]", "Process temperature [c]">>

FOne == FromInt(1)

\* numpy.finfo(float64).eps
FEps == [neg |-> FALSE, m |-> BShl(<<1>>, Precision - 1), e |-> 2 - 2 * Precision]

\* the least (greatest = TRUE: the greatest) of the float64 values xs
RECURSIVE FExtreme(_, _, _)
FExtreme(xs, k, greatest) ==
    IF k = 1 THEN xs[1]
    ELSE With(FExtreme(xs, k - 1, greatest),
              LAMBDA rest : IF greatest
                            THEN (IF FLess(rest, xs[k]) THEN xs[k] ELSE rest)
                            ELSE (IF FLess(xs[k], rest) THEN xs[k] ELSE rest))

\* sklearn's _handle_zeros_in_scale: a range below 10 * eps counts as constant
HandleZerosInScale(data_range) ==
    With(data_range, LAMBDA range : IF FLess(range, FMul(FromInt(10), FEps)) THEN FOne ELSE range)

\* MinMaxScaler.fit on one column: <<scale_, min_>>
MinMaxFit(xs) ==
    With(<<FExtreme(xs, Len(xs), FALSE), FExtreme(xs, Len(xs), TRUE)>>,
         LAMBDA data : With(FDiv(FOne, HandleZerosInScale(FSub(data[2], data[1]))),
                            LAMBDA scale : <<scale, FSub(FZero, FMul(data[1], scale))>>))

\* MinMaxScaler.transform on one value: X *= scale_; X += min_
MinMaxTransform(x, fit) == FAdd(FMul(x, fit[1]), fit[2])

\* MinMaxScaler().fit_transform on one column of numeric cells
MinMaxScale(cells) ==
    With(Tabulate(Len(cells), LAMBDA r : ToFloat(cells[r])),
         LAMBDA xs : With(MinMaxFit(xs),
                          LAMBDA fit : Tabulate(Len(xs), LAMBDA r : MinMaxTransform(xs[r], fit))))

RECURSIVE ScaleCols(_, _)
\* t with the first k columns of col_to_scale scaled
ScaleCols(t, k) ==
    IF k = 0 THEN t
    ELSE With(ScaleCols(t, k - 1),
              LAMBDA u : With(Column(u, col_to_scale[k]),
                              LAMBDA cells : SetCol(u, col_to_scale[k], MinMaxScale(cells))))

scale_features ==
    /\ UNCHANGED <<csv, files>>
    /\ IF ~IsTable(df)
       THEN df' = df /\ Raises("scale_features", "TypeError")
       ELSE IF \E k \in 1..Len(col_to_scale) : ~HasCol(df, col_to_scale[k])
       THEN df' = df /\ Raises("scale_features", "KeyError")
       ELSE /\ \E scaled \in {ScaleCols(df, Len(col_to_scale))} : df' = scaled
            /\ Returns("scale_features", <<Msg("Scaled numerical features")>>)

(***************************************************************************)
(* oversample_data: RandomOverSampler(sampling_strategy='auto') is given   *)
(* no random_state, so it draws from numpy's global generator, which is    *)
(* seeded from the operating system: each draw is any row of the class.    *)
(***************************************************************************)
\* the positions of the rows of class c in the label cells y, ascending
ClassRows(y, c) ==
    LET Is(r) == y[r].i = c
    IN  SelectSeq(Tabulate(Len(y), LAMBDA r : r), Is)

Classes(y) == {y[r].i : r \in 1..Len(y)}

ClassCount(y, c) == Len(ClassRows(y, c))

MajorityCount(y) ==
    CHOOSE n \in {ClassCount(y, c) : c \in Classes(y)} :
        \A c \in Classes(y) : ClassCount(y, c) <= n

RECURSIVE AscendingSeq(_)
\* the numbers of S in ascending order
AscendingSeq(S) ==
    IF S = {} THEN <<>>
    ELSE LET least == CHOOSE x \in S : \A z \in S : x <= z
         IN  <<least>> \o AscendingSeq(S \ {least})

\* mutant of SamplesNeeded: one draw short for every minority class
SamplesNeededShort(y, c) ==
    IF ClassCount(y, c) < MajorityCount(y) THEN MajorityCount(y) - ClassCount(y, c) - 1 ELSE 0

\* sampling_strategy='auto': how many rows class c is to gain
SamplesNeeded(y, c) == MajorityCount(y) - ClassCount(y, c)

RECURSIVE Resamplings(_, _)
\* every sequence of row positions fit_resample can append for the classes cs
Resamplings(y, cs) ==
    IF cs = <<>> THEN {<<>>}
    ELSE LET rows == ClassRows(y, Head(cs))
         IN  {Tabulate(SamplesNeeded(y, Head(cs)), LAMBDA k : rows[pick[k]]) \o rest :
                 pick \in [1..SamplesNeeded(y, Head(cs)) -> 1..Len(rows)],
                 rest \in Resamplings(y, Tail(cs))}

\* mutant of Resampled: the drawn rows alone, without the rows of the input
ResampledOnly(t, extra) == TakeRows(t, extra)

\* pd.concat([X_resampled, y_resampled], axis=1) for the appended positions
Resampled(t, extra) ==
    With(Tabulate(NRows(t), LAMBDA r : r) \o extra,
         LAMBDA all : With(<<TakeRows(DropCols(t, {"type_of_failure"}), all),
                             Column(TakeRows(t, all), "type_of_failure")>>,
                           LAMBDA Xy : SetCol(Xy[1], "type_of_failure", Xy[2])))

oversample_data ==
    /\ UNCHANGED <<csv, files>>
    /\ IF ~IsTable(df)
       THEN df' = df /\ Raises("oversample_data", "AttributeError")
       ELSE IF ~HasCol(df, "type_of_failure")
       THEN df' = df /\ Raises("oversample_data", "KeyError")
       ELSE \E y \in {Column(df, "type_of_failure")} :
                IF Cardinality(Classes(y)) < 2
                THEN df' = df /\ Raises("oversample_data", "ValueError")
                ELSE /\ \E extra \in Resamplings(y, AscendingSeq(Classes(y))) :
                            \E resampled \in {Resampled(df, extra)} : df' = resampled
                     /\ Returns("oversample_data",
                          <<Msg("Applied random oversampling to balance classes")>>)

(***************************************************************************)
(* train_test_split: sklearn's train_test_split(X, y, test_size=0.2,       *)
(* random_state=42) shuffles with numpy's RandomState(42), a Mersenne      *)
(* Twister, whose output stream is a constant of the program.              *)
(***************************************************************************)
\* the low 16 bits of the first outputs of MT19937 seeded with 42
MT19937Seed42 ==
    <<56422, 15795, 860, 38158, 62570, 54343, 44732, 11284, 54886, 6265, 16850, 62678,
      37194, 21962, 47191, 60788, 44131, 60263, 16023, 41090, 1685, 64820, 769, 59735,
      62955, 64925, 56101, 2433, 5311, 37819, 39188, 17568, 53707, 19769, 28693, 6396,
      62187, 27480, 65072, 41434, 25658, 18942, 57001, 18431, 64987, 2747, 58319, 59150,
      189, 64445, 19118, 35773, 53810, 1899, 56886, 1267, 31551, 50680, 11394, 3556,
      3890, 41606, 30740, 60232, 14502, 21777, 10627, 8792, 43323, 43021, 8433, 43001,
      11016, 23897, 2612, 56193, 58707, 55387, 54638, 23483, 58822, 48555, 59900, 17159,
      44974, 40994, 14541, 35920, 26531, 1585, 3943, 23939, 19457, 1021, 11653, 43573>>

RECURSIVE RandomInterval(_, _)
\* numpy's random_interval(max): outputs masked to the bits of max until one
\* is at most max; pos is the next output to read.  <<value, next pos>>
RandomInterval(max, pos) ==
    LET v == MT19937Seed42[pos] % Pow2(SmallBitLen(max))
    IN  IF v <= max THEN <<v, pos + 1>> ELSE RandomInterval(max, pos + 1)

RECURSIVE ShuffleFrom(_)
\* RandomState.shuffle: for i = n-1 down to 1, swap a[i] and a[j], j drawn
\* from 0..i (positions here are 1-based: i + 1 and j + 1).  st is
\* <<a, i, pos>>.
ShuffleFrom(st) ==
    IF st[2] = 0 THEN st[1]
    ELSE LET a == st[1]
             i == st[2]
             d == RandomInterval(i, st[3])
             j == d[1]
         IN  ShuffleFrom(<<[a EXCEPT ![i + 1] = a[j + 1], ![j + 1] = a[i + 1]], i - 1, d[2]>>)

\* RandomState(42).permutation(n), as 1-based row positions
Permutation42(n) == ShuffleFrom(<<Tabulate(n, LAMBDA k : k), n - 1, 1>>)

\* ceil(x) for a float64 x >= 0 below 2^15
FCeil(x) ==
    IF x.m = <<>> THEN 0
    ELSE IF x.e >= 0 THEN BShl(x.m, x.e)[1]
    ELSE LET whole == BShr(x.m, -x.e)
         IN  Limb(whole, 1) + (IF BShl(whole, -x.e) = x.m THEN 0 ELSE 1)

test_size == FDiv(FromInt(2), FromInt(10))

\* sklearn's _validate_shuffle_split: n_test = ceil(test_size * n_samples)
NTest(n) == FCeil(FMul(test_size, FromInt(n)))

\* mutant of sk_train_test_split: the training slice starts one position early
sk_train_test_split_overlap(t) ==
    With(<<Permutation42(NRows(t)), NTest(NRows(t))>>,
         LAMBDA s : <<TakeRows(t, SubSeq(s[1], s[2], NRows(t))),
                      TakeRows(t, SubSeq(s[1], 1, s[2]))>>)

\* sklearn's train_test_split on the rows of t: <<train, test>>
sk_train_test_split(t) ==
    With(<<Permutation42(NRows(t)), NTest(NRows(t))>>,
         LAMBDA s : <<TakeRows(t, SubSeq(s[1], s[2] + 1, NRows(t))),
                      TakeRows(t, SubSeq(s[1], 1, s[2]))>>)

\* mutant of Features: the label column is left among the features
FeaturesAll(t) == t

\* X = self.df.drop('type_of_failure', axis=1)
Features(t) == DropCols(t, {"type_of_failure"})

\* y = self.df['type_of_failure'], a named Series: its file has one column
Labels(t) == DropCols(t, {t.cols[k] : k \in 1..Len(t.cols)} \ {"type_of_failure"})

Shape(t) == <<NRows(t), Len(t.cols)>>

train_test_split ==
    /\ UNCHANGED <<csv, df>>
    /\ IF ~IsTable(df)
       THEN files' = files /\ Raises("train_test_split", "AttributeError")
       ELSE IF ~HasCol(df, "type_of_failure")
       THEN files' = files /\ Raises("train_test_split", "KeyError")
       ELSE IF NRows(df) - NTest(NRows(df)) = 0
       THEN files' = files /\ Raises("train_test_split", "ValueError")
       ELSE \E X \in {With(Features(df), sk_train_test_split)},
               y \in {With(Labels(df), sk_train_test_split)} :
                /\ files' = [f \in FileNames |->
                               CASE f = "X_train.csv" -> X[1]
                                 [] f = "X_test.csv"  -> X[2]
                                 [] f = "y_train.csv" -> y[1]
                                 [] f = "y_test.csv"  -> y[2]]
                /\ Returns("train_test_split",
                     <<Msg("Data split into training and test sets"),
                       [msg |-> "X_Train shape, X_Test shape, y_train shape, y_test shape",
                        shapes |-> <<Shape(X[1]), Shape(X[2]),
                                     <<NRows(y[1])>>, <<NRows(y[2])>>>>]>>)

(***************************************************************************)
(* Callers.  Spec: any sequence of method calls on one DataProcessing      *)
(* object.  PipelineSpec: the pipeline, which calls the seven stages in    *)
(* order and stops at the first exception.  RerunSpec: the pipeline run    *)
(* again on the same file.                                                 *)
(***************************************************************************)
MaxRows == 4

MaxFreeRows == 2

MaxLog == 5

MaxMajority == 3

MaxMinority == 2

MaxRuns == 2

\* the sequences of at most n sample observations among the first k
Tables(n, k) == UNION {[1..len -> 1..k] : len \in 1..n}

\* the columns a file may lack
MissingColumns ==
    {{}, {"UDI"}, {"Product ID"}, {"UDI", "Product ID"}, {"Target"},
     {"Air temperature [K]"}, {"Process temperature [K]"}, {"Type"}, {"Failure Type"},
     {"Torque [Nm]"}}

\* the state after DataProcessing(config), the file holding table
Constructed(table) ==
    /\ csv = table
    /\ df = NoneDF
    /\ files = [f \in FileNames |-> Absent]
    /\ log = <<>>
    /\ call = "__init__"
    /\ err = "ok"

Init == \E ks \in Tables(MaxFreeRows, 2) : Constructed(CsvTable(ks, {}))

\* the caller goes on calling while the log is short
Calling == Len(log) < MaxLog

Next ==
    \/ Calling /\ load_data
    \/ Calling /\ rename_and_drop_columns
    \/ Calling /\ convert_temperature
    \/ Calling /\ encode_features
    \/ Calling /\ scale_features
    \/ Calling /\ oversample_data
    \/ Calling /\ train_test_split

Spec == Init /\ [][Next]_vars

\* a complete run logs one message per stage and the shapes
LogPerRun == 8

\* it is the turn of stage k of run number run or earlier
Turn(k, runs) ==
    /\ err = "ok"
    /\ Len(log) < LogPerRun * runs
    /\ Len(log) % LogPerRun = k - 1

PipelineInit ==
    \E ks \in Tables(MaxRows, Len(SampleRows)), missing \in MissingColumns :
        Constructed(CsvTable(ks, missing))

PipelineNext ==
    \/ Turn(1, 1) /\ load_data
    \/ Turn(2, 1) /\ rename_and_drop_columns
    \/ Turn(3, 1) /\ convert_temperature
    \/ Turn(4, 1) /\ encode_features
    \/ Turn(5, 1) /\ scale_features
    \/ Turn(6, 1) /\ oversample_data
    \/ Turn(7, 1) /\ train_test_split

PipelineSpec == PipelineInit /\ [][PipelineNext]_vars

\* files of n observations of the first sample followed by observations of
\* the second and third, which share a Failure Type
RerunInit ==
    \E n \in 1..MaxMajority, ms \in {<<>>} \cup Tables(MaxMinority, 2) :
        Constructed(CsvTable(Tabulate(n, LAMBDA r : 1) \o Tabulate(Len(ms), LAMBDA r : ms[r] + 1), {}))

RerunNext ==
    \/ Turn(1, MaxRuns) /\ load_data
    \/ Turn(2, MaxRuns) /\ rename_and_drop_columns
    \/ Turn(3, MaxRuns) /\ convert_temperature
    \/ Turn(4, MaxRuns) /\ encode_features
    \/ Turn(5, MaxRuns) /\ scale_features
    \/ Turn(6, MaxRuns) /\ oversample_data
    \/ Turn(7, MaxRuns) /\ train_test_split

RerunSpec == RerunInit /\ [][RerunNext]_vars

(***************************************************************************)
(* Properties.  Each is stated on what a caller can observe: the table     *)
(* self.df, the files written, the log, and how the last call ended.       *)
(***************************************************************************)
\* the label column of a table
TypeOfFailure(t) == Column(t, "type_of_failure")

\* how many of rows are equal to v
Occurrences(rows, v) == Cardinality({r \in 1..Len(rows) : rows[r] = v})

\* the rows of feature file X with the label of file y put back at the end
Rejoined(X, y) == Tabulate(NRows(X), LAMBDA k : X.rows[k] \o y.rows[k])

\* the last call was method and it returned
Completed(method) == call = method /\ err = "ok"

\* C1: when oversample_data completes on a table with at least two classes,
\* every class of the input has in the result as many rows as the largest
\* class of the input had
C1_Balanced ==
    [][(call' = "oversample_data" /\ err' = "ok" /\ Cardinality(Classes(TypeOfFailure(df))) >= 2)
         => \A c \in Classes(TypeOfFailure(df)) :
                ClassCount(TypeOfFailure(df'), c) = MajorityCount(TypeOfFailure(df))]_vars

\* oversample_data has completed and rows were added
C1_RowsAdded == Completed("oversample_data") /\ NRows(df) > NRows(csv)

\* C2: when train_test_split completes on a table of at least 5 rows, the
\* feature and label files of each side have the same number of rows, the
\* two sides together have as many rows as the table, and every row of the
\* table is in the files as often as in the table
C2_Partition ==
    (Completed("train_test_split") /\ NRows(df) >= 5) =>
        \E parts \in {<<Rejoined(files["X_train.csv"], files["y_train.csv"]),
                        Rejoined(files["X_test.csv"], files["y_test.csv"])>>} :
            /\ NRows(files["X_train.csv"]) = NRows(files["y_train.csv"])
            /\ NRows(files["X_test.csv"]) = NRows(files["y_test.csv"])
            /\ NRows(files["X_train.csv"]) + NRows(files["X_test.csv"]) = NRows(df)
            /\ \A r \in 1..NRows(df) :
                   Occurrences(parts[1] \o parts[2], df.rows[r]) = Occurrences(df.rows, df.rows[r])

\* train_test_split has completed on at least 5 rows, both sides non-empty
C2_SplitOfFive ==
    /\ Completed("train_test_split")
    /\ NRows(df) >= 5
    /\ NRows(files["X_train.csv"]) >= 1
    /\ NRows(files["X_test.csv"]) >= 1

\* C3: in a pipeline run the table has the rows of the file after load_data,
\* keeps its number of rows in rename_and_drop_columns, convert_temperature,
\* encode_features and scale_features, never loses rows in oversample_data,
\* and train_test_split leaves it alone and writes as many rows as it has
C3_RowCount ==
    [][/\ call' = "load_data" => NRows(df') = NRows(csv)
       /\ call' \in {"rename_and_drop_columns", "convert_temperature", "encode_features",
                     "scale_features"} => NRows(df') = NRows(df)
       /\ call' = "oversample_data" => NRows(df') >= NRows(df)
       /\ call' = "train_test_split" =>
              /\ df' = df
              /\ err' = "ok" => NRows(files'["X_train.csv"]) + NRows(files'["X_test.csv"])
                                    = NRows(df)]_vars

\* a pipeline run has ended in which oversample_data added rows
C3_RunWithGrowth ==
    /\ Completed("train_test_split")
    /\ NRows(df) > NRows(csv)
    /\ NRows(files["X_train.csv"]) + NRows(files["X_test.csv"]) = NRows(df)

\* C4: a second run of the pipeline on the same file writes the same
\* X_train, X_test, y_train and y_test as the first
C4_Reproducible ==
    [][(call' = "train_test_split" /\ err' = "ok" /\ Len(log) >= LogPerRun)
         => files' = files]_vars

\* the Failure Type strings and the codes encode_features gave them
FailureTypes(t) == Tabulate(NRows(t), LAMBDA r : Column(t, "Failure Type")[r].s)

Codes(t) == Tabulate(NRows(t), LAMBDA r : TypeOfFailure(t)[r].i)

\* C5: when encode_features completes, the code of a row is the
\* number of distinct Failure Type strings that first appear above the first
\* row holding its string
C5_FirstSeenCodes ==
    Completed("encode_features") =>
        \E ls \in {FailureTypes(df)}, cs \in {Codes(df)} :
            \A r \in 1..Len(ls) :
                \E first \in 1..r :
                    /\ ls[first] = ls[r]
                    /\ \A q \in 1..(first - 1) : ls[q] # ls[r]
                    /\ cs[r] = Cardinality({ls[q] : q \in 1..(first - 1)})

\* C6: when scale_features completes, a scaled column is 0.0 in every row
\* if its values were all equal, and else has minimum 0.0 and maximum 1.0
C6_UnitRange ==
    [][(call' = "scale_features" /\ err' = "ok") =>
         \A k \in 1..Len(col_to_scale) :
             \E before \in {Column(df, col_to_scale[k])}, after \in {Column(df', col_to_scale[k])} :
                 IF \A r \in 1..Len(before) : ToFloat(before[r]) = ToFloat(before[1])
                 THEN \A r \in 1..Len(after) : after[r] = FZero
                 ELSE /\ FExtreme(after, Len(after), FALSE) = FZero
                      /\ FExtreme(after, Len(after), TRUE) = FOne]_vars

\* the table is an output of rename_and_drop_columns
Normalized(t) ==
    /\ IsTable(t)
    /\ ~HasCol(t, "Target") /\ HasCol(t, "Machine failure")
    /\ ~HasCol(t, "UDI") /\ ~HasCol(t, "Product ID")

\* C7: rename_and_drop_columns called on a table it already normalized
\* raises KeyError (pandas' error for a missing column) and leaves the
\* table as it was
C7_SecondCallFails ==
    [][(call' = "rename_and_drop_columns" /\ Normalized(df))
         => (err' = "KeyError" /\ df' = df)]_vars

\* rename_and_drop_columns has failed on its own output
C7_FailedOnOwnOutput ==
    call = "rename_and_drop_columns" /\ err = "KeyError" /\ Normalized(df)

\* the message each stage logs when it completes, in pipeline order
StageMessages ==
    <<"Data loaded successfully",
      "Renamed and dropped columns",
      "Converted temperatures to Celsius and dropped original columns",
      "Encoded categorical features",
      "Scaled numerical features",
      "Applied random oversampling to balance classes",
      "Data split into training and test sets">>

\* the stages that have completed, oldest first, by their place in the pipeline
Completions ==
    With(SelectSeq(log, LAMBDA e : e.shapes = <<>>),
         LAMBDA done : Tabulate(Len(done),
                                LAMBDA k : CHOOSE n \in 1..Len(StageMessages) :
                                               StageMessages[n] = done[k].msg))

\* the completions in done between the last load_data before place k and k
SinceLoad(done, k) ==
    {done[j] : j \in {i \in 1..(k - 1) : \A m \in (i + 1)..(k - 1) : done[m] # 1}}

\* C8 (as claimed): whatever the calls, the stages that have completed are
\* the first stages of the pipeline, in order and once each
C8_ForwardOnly == \A k \in 1..Len(Completions) : Completions[k] = k

\* C8 (as amended): whatever the calls, a stage completes only after
\* load_data has; rename_and_drop_columns, convert_temperature and
\* encode_features complete at most once after a load_data; scale_features
\* completes only after a convert_temperature since the last load_data, and
\* oversample_data and train_test_split only after an encode_features since
\* the last load_data
C8_DataOrder ==
    \E done \in {Completions} :
        \A k \in 1..Len(done) :
            /\ done[k] # 1 => 1 \in SinceLoad(done, k)
            /\ done[k] \in {2, 3, 4} => done[k] \notin SinceLoad(done, k)
            /\ done[k] = 5 => 3 \in SinceLoad(done, k)
            /\ done[k] \in {6, 7} => 4 \in SinceLoad(done, k)

\* three stages have completed, not in pipeline order
C8_OutOfPipelineOrder ==
    /\ Len(Completions) >= 3
    /\ \E k \in 1..Len(Completions) : Completions[k] # k
    /\ err = "ok"

\* the column names of a file
Header(f) == {files[f].cols[k] : k \in 1..Len(files[f].cols)}

\* C9: after a pipeline run on a file with the required columns, X_train.csv
\* and X_test.csv have the Celsius columns and none of UDI, Product ID, the
\* Kelvin columns and type_of_failure, and y_train.csv and y_test.csv have
\* the one column type_of_failure
C9_FileColumns ==
    (Completed("train_test_split") /\ \A k \in 1..Len(RequiredColumns) : HasCol(csv, RequiredColumns[k]))
        => /\ \A f \in {"X_train.csv", "X_test.csv"} :
                  /\ Header(f) \cap {"UDI", "Product ID", "Air temperature [K]",
                                     "Process temperature [K]", "type_of_failure"} = {}
                  /\ {"Air temperature [c]", "Process temperature [c]"} \subseteq Header(f)
           /\ \A f \in {"y_train.csv", "y_test.csv"} : files[f].cols = <<"type_of_failure">>

\* a pipeline run on a file with the required columns has written the files
C9_FilesWritten ==
    /\ Completed("train_test_split")
    /\ \A k \in 1..Len(RequiredColumns) : HasCol(csv, RequiredColumns[k])
    /\ \A f \in FileNames : IsTable(files[f]) /\ Len(files[f].cols) >= 1

\* C10 (as claimed): a call that raises leaves the table as it was
C10_FailureKeepsTable == [][err' # "ok" => df' = df]_vars

\* C10 (as amended): a call that raises leaves the table as it was, except
\* that rename_and_drop_columns has by then renamed Target (and dropped
\* nothing), convert_temperature failing for Process temperature [K] has
\* added Air temperature [c] (and dropped nothing), and encode_features
\* failing for Failure Type has encoded Type
C10_FailureEffects ==
    [][err' # "ok" =>
         IF call' = "rename_and_drop_columns" /\ IsTable(df)
         THEN /\ df'.rows = df.rows
              /\ Len(df'.cols) = Len(df.cols)
              /\ \A k \in 1..Len(df.cols) :
                     df'.cols[k] = IF df.cols[k] = "Target" THEN "Machine failure" ELSE df.cols[k]
         ELSE IF call' = "convert_temperature" /\ err' = "KeyError"
                 /\ HasCol(df, "Air temperature [K]")
         THEN /\ df'.cols = Append(df.cols, "Air temperature [c]")
              /\ DropCols(df', {"Air temperature [c]"}) = df
         ELSE IF call' = "encode_features" /\ err' = "KeyError" /\ HasCol(df, "Type")
         THEN /\ df'.cols = df.cols
              /\ DropCols(df', {"Type"}) = DropCols(df, {"Type"})
              /\ \A r \in 1..NRows(df) : IsFloat(Column(df', "Type")[r])
         ELSE df' = df]_vars

\* rename_and_drop_columns has raised after renaming Target
C10_RenamedThenRaised ==
    /\ call = "rename_and_drop_columns"
    /\ err = "KeyError"
    /\ HasCol(df, "Machine failure")
    /\ HasCol(df, "UDI") \/ HasCol(df, "Product ID")
====
